---------------------------- MODULE Spec2Model ----------------------------
(***************************************************************************)
(* Model of lazymc's per-connection interception pipeline                  *)
(* (src/src/status.rs, `serve` and `server_status`).                       *)
(*                                                                         *)
(* One task runs `serve` per accepted connection.  A connection reads      *)
(* length-prefixed frames from its socket into `buf`, dispatches on        *)
(* (client state, packet id), answers status and ping itself, and on a     *)
(* login-start that passes the lockout and ban checks starts the backend   *)
(* and hands the socket with the recorded inbound bytes to join::occupy.   *)
(*                                                                         *)
(* Bytes are small naturals.  A frame on the wire is                       *)
(*     <<len, id, d1, ..., dk>>   with len = 1 + k                         *)
(* (a one-byte length prefix, a one-byte packet id, the payload).          *)
(***************************************************************************)
EXTENDS Integers, Sequences, FiniteSets, TLC

\* ------------------------------------------------------------------ bounds

\* Most frames a client stream is made of.
MaxFrames == 3

\* ------------------------------------------------------- program constants

SERVER_HANDSHAKE == 0
SERVER_STATUS == 0
SERVER_PING == 1
SERVER_LOGIN_START == 0

\* --------------------------------------------------------------- universe

Conns == {1, 2}

\* Option<T>: None is the empty sequence, Some(x) the one-element sequence.
None == <<>>
Some(x) == <<x>>
IsSome(o) == Len(o) = 1
Unwrap(o) == o[1]

ClientStates == {"Handshake", "Status", "Login", "Transfer"}
ServerStates == {"Stopped", "Starting", "Started", "Stopping"}

\* Frames a modelled client sends (raw wire bytes).
HsStatus == <<3, 0, 5, 1>>
HsLogin == <<3, 0, 5, 2>>
HsTransfer == <<3, 0, 5, 3>>
HsUnknown == <<3, 0, 5, 4>>
Id0Empty == <<1, 0>>
PingFrame == <<2, 1, 7>>
LoginFrame == <<3, 0, 1, 6>>
BadLength == <<0>>

Frames ==
    {HsStatus, HsLogin, HsTransfer, HsUnknown, Id0Empty, PingFrame, LoginFrame, BadLength}

RECURSIVE Flatten(_)
Flatten(fs) == IF fs = <<>> THEN <<>> ELSE Head(fs) \o Flatten(Tail(fs))

\* Every client byte stream made of at most n frames.
StreamsUpTo(n) == UNION {{Flatten(fs) : fs \in [1..k -> Frames]} : k \in 0..n}

\* ------------------------------------------------------------ configuration

LockoutMessage == "lockout message"
MotdSleeping == "motd sleeping"
MotdStarting == "motd starting"
MotdStopping == "motd stopping"
PublicVersion == [name |-> "public version", protocol |-> 9]

\* A backend status snapshot (ServerStatus as last reported by the backend).
Snapshot ==
    [version |-> [name |-> "backend version", protocol |-> 8],
     description |-> "backend motd",
     players |-> [online |-> 4, max |-> 20, sample |-> <<"steve">>]]

\* Ban entries the ban store may hold for a peer.
ActiveBan == [reason |-> "ban reason", banned |-> TRUE]
ExpiredBan == [reason |-> "old ban reason", banned |-> FALSE]

\* The peer address of a connection (client.peer.ip()).
PeerIp(c) == c

\* ------------------------------------------------------------------- state

VARIABLES
    config,           \* Config: lockout.enabled, motd.from_server
    server_state,     \* Server::state()
    status,           \* Server::status(): Option<ServerStatus>
    banned_ips,       \* ban store: peer ip -> Option<BanEntry>
    start_requests,   \* number of calls of Server::start
    stream,           \* [Conns -> the bytes the client sends on its socket]
    nread,            \* [Conns -> how many of them the gateway has read]
    buf,              \* [Conns -> buf, read and not yet taken as a frame]
    inbound_history,  \* [Conns -> inbound_history]
    login_queue,      \* [Conns -> login_queue as given to join::occupy]
    client_state,     \* [Conns -> client.state()]
    client_info,      \* [Conns -> ClientInfo: protocol_version, username]
    raw,              \* [Conns -> raw of the login-start held across Server::start]
    written,          \* [Conns -> what has been written to the client]
    pc,               \* [Conns -> where serve is]
    event             \* [Conns -> what the connection's last step did]

shared == <<config, server_state, status, banned_ips, start_requests>>
conn_vars ==
    <<stream, nread, buf, inbound_history, login_queue, client_state,
      client_info, raw, written, pc>>
vars == <<shared, conn_vars, event>>

\* The bytes of the client stream not yet read from the socket.
Unread(c) == SubSeq(stream[c], nread[c] + 1, Len(stream[c]))

\* ------------------------------------------------------------ frame reader

\* packet::read_packet has a whole frame at the head of the buffer.
HasFrame(b) == Len(b) >= 1 /\ b[1] >= 1 /\ Len(b) >= 1 + b[1]

\* The frame at the head of the buffer cannot be parsed: its length prefix
\* leaves no room for a packet id.
Malformed(b) == Len(b) >= 1 /\ b[1] = 0

\* The raw bytes of the frame at the head of the buffer, length prefix included.
RawOf(b) == SubSeq(b, 1, 1 + b[1])

\* What stays in the buffer after the frame at its head is split off.
RestOf(b) == SubSeq(b, 2 + b[1], Len(b))

\* RawPacket::decode: the packet id and the payload of a raw frame.
PacketOf(r) == [id |-> r[2], data |-> SubSeq(r, 3, Len(r))]

\* -------------------------------------------------------------- the codec

\* Handshake::decode: a payload <<protocol_version, next_state>>.
HandshakeDecode(data) ==
    IF Len(data) >= 2
    THEN Some([protocol_version |-> data[1], next_state |-> data[2]])
    ELSE None

\* LoginStart::decode: a payload <<n, c1, ..., cn>>, the name c1..cn.
LoginStartDecode(data) ==
    IF Len(data) >= 1 /\ Len(data) >= 1 + data[1]
    THEN Some([name |-> SubSeq(data, 2, 1 + data[1])])
    ELSE None

\* ClientState::from_id
from_id(id) ==
    CASE id = 1 -> Some("Status")
      [] id = 2 -> Some("Login")
      [] id = 3 -> Some("Transfer")
      [] OTHER -> None

\* ------------------------------------------------------- status synthesizer

\* A status synthesizer with the starting and stopping templates exchanged.
server_status_templates_swapped ==
    LET version == IF IsSome(status) THEN Unwrap(status).version ELSE PublicVersion
        max == IF IsSome(status) THEN Unwrap(status).players.max ELSE 0
        description ==
            IF config.motd_from_server /\ IsSome(status)
            THEN Unwrap(status).description
            ELSE CASE server_state \in {"Stopped", "Started"} -> MotdSleeping
                   [] server_state = "Starting" -> MotdStopping
                   [] server_state = "Stopping" -> MotdStarting
    IN  [version |-> version,
         description |-> description,
         players |-> [online |-> 0, max |-> max, sample |-> <<>>]]

\* A status synthesizer that passes the snapshot's players through.
server_status_with_snapshot_players ==
    LET version == IF IsSome(status) THEN Unwrap(status).version ELSE PublicVersion
        players ==
            IF IsSome(status)
            THEN Unwrap(status).players
            ELSE [online |-> 0, max |-> 0, sample |-> <<>>]
        description ==
            IF config.motd_from_server /\ IsSome(status)
            THEN Unwrap(status).description
            ELSE CASE server_state \in {"Stopped", "Started"} -> MotdSleeping
                   [] server_state = "Starting" -> MotdStarting
                   [] server_state = "Stopping" -> MotdStopping
    IN  [version |-> version, description |-> description, players |-> players]

\* server_status(config, server): the ServerStatus a status request is answered with.
server_status ==
    LET version == IF IsSome(status) THEN Unwrap(status).version ELSE PublicVersion
        max == IF IsSome(status) THEN Unwrap(status).players.max ELSE 0
        description ==
            IF config.motd_from_server /\ IsSome(status)
            THEN Unwrap(status).description
            ELSE CASE server_state \in {"Stopped", "Started"} -> MotdSleeping
                   [] server_state = "Starting" -> MotdStarting
                   [] server_state = "Stopping" -> MotdStopping
    IN  [version |-> version,
         description |-> description,
         players |-> [online |-> 0, max |-> max, sample |-> <<>>]]

\* What is written to the client.
StatusResponse(ss) == [kind |-> "status_response", data |-> <<ss>>]
EchoPayloadOnly(r) == [kind |-> "raw", data |-> Tail(r)]
Echo(r) == [kind |-> "raw", data |-> r]
Kick(msg) == [kind |-> "kick", data |-> <<msg>>]

\* ----------------------------------------------------------------- backend

\* Server::start: the state after a start request.
StateAfterStart(s) == IF s = "Stopped" THEN "Starting" ELSE s

\* -------------------------------------------------------------------- init

\* The state when the connections in `accepted` have been accepted and serve is
\* entered on each: each client's stream is drawn from streams, the environment
\* from the other sets.  A connection not accepted takes no step.
InitWith(accepted, streams, lockouts, from_servers, states, statuses, bans) ==
    /\ config \in [lockout_enabled : lockouts, motd_from_server : from_servers]
    /\ server_state \in states
    /\ status \in statuses
    /\ banned_ips \in
          {[ip \in {PeerIp(c) : c \in Conns} |-> IF ip = PeerIp(1) THEN a ELSE b] :
              a \in bans, b \in IF 2 \in accepted THEN bans ELSE {None}}
    /\ start_requests = 0
    /\ stream \in
          {[c \in Conns |-> IF c = 1 THEN a ELSE b] :
              a \in streams, b \in IF 2 \in accepted THEN streams ELSE {<<>>}}
    /\ nread = [c \in Conns |-> 0]
    /\ buf = [c \in Conns |-> <<>>]
    /\ inbound_history = [c \in Conns |-> <<>>]
    /\ login_queue = [c \in Conns |-> <<>>]
    /\ client_state = [c \in Conns |-> "Handshake"]
    /\ client_info = [c \in Conns |-> [protocol_version |-> None, username |-> None]]
    /\ raw = [c \in Conns |-> <<>>]
    /\ written = [c \in Conns |-> <<>>]
    /\ pc = [c \in Conns |-> IF c \in accepted THEN "loop" ELSE "unaccepted"]
    /\ event = [c \in Conns |-> "none"]

\* ----------------------------------------------------------------- actions

\* A failure that is noted while the connection stays in the loop.
CloseKeepsLooping(c, kind) ==
    /\ pc' = pc
    /\ event' = [event EXCEPT ![c] = kind]

\* A failure that takes every connection down with it.
CloseAll(c, kind) ==
    /\ pc' = [d \in Conns |-> IF pc[d] = "unaccepted" THEN pc[d] ELSE "closed"]
    /\ event' = [event EXCEPT ![c] = kind]

\* serve leaves its loop, or returns: the connection is closed.
Close(c, kind) ==
    /\ pc' = [pc EXCEPT ![c] = "closed"]
    /\ event' = [event EXCEPT ![c] = kind]

\* serve goes round its loop.
Continue(c, kind) ==
    /\ pc' = pc
    /\ event' = [event EXCEPT ![c] = kind]

\* A frame reader that discards what is left in the buffer beyond the frame.
TakeFrameDropsRest(c) == buf' = [buf EXCEPT ![c] = <<>>]

\* read_packet takes the frame at the head of the buffer.
TakeFrame(c) == buf' = [buf EXCEPT ![c] = RestOf(@)]

\* read_packet lacks a whole frame and reads once more from the socket: some
\* of the bytes the client sent arrive.
ReadSocket(c) ==
    /\ pc[c] = "loop"
    /\ ~HasFrame(buf[c]) /\ ~Malformed(buf[c])
    /\ \E n \in 1..(Len(stream[c]) - nread[c]) :
          /\ buf' = [buf EXCEPT ![c] = @ \o SubSeq(stream[c], nread[c] + 1, nread[c] + n)]
          /\ nread' = [nread EXCEPT ![c] = @ + n]
    /\ Continue(c, "read")
    /\ UNCHANGED <<shared, stream, inbound_history, login_queue, client_state,
                   client_info, raw, written>>

\* read_packet reads the end of the stream: Ok(None).
ReadEnd(c) ==
    /\ pc[c] = "loop"
    /\ ~HasFrame(buf[c]) /\ ~Malformed(buf[c])
    /\ nread[c] = Len(stream[c])
    /\ Close(c, "end_of_stream")
    /\ UNCHANGED <<shared, stream, nread, buf, inbound_history, login_queue,
                   client_state, client_info, raw, written>>

\* read_packet's read fails: Err.
ReadError(c) ==
    /\ pc[c] = "loop"
    /\ ~HasFrame(buf[c]) /\ ~Malformed(buf[c])
    /\ Close(c, "read_error")
    /\ UNCHANGED <<shared, stream, nread, buf, inbound_history, login_queue,
                   client_state, client_info, raw, written>>

\* read_packet cannot parse the frame at the head of the buffer: Err.
MalformedFrame(c) ==
    /\ pc[c] = "loop"
    /\ Malformed(buf[c])
    /\ Close(c, "malformed_frame")
    /\ UNCHANGED <<shared, stream, nread, buf, inbound_history, login_queue,
                   client_state, client_info, raw, written>>

\* inbound_history after a handshake to new_state whose raw bytes are r.
HistoryAfterHandshake(h, r, new_state) == IF new_state = "Login" THEN h \o r ELSE h

\* A handshake check that forgets the client state.
IsHandshakeInAnyState(state, packet) == packet.id = SERVER_HANDSHAKE

\* The frame is dispatched as a handshake.
IsHandshake(state, packet) == state = "Handshake" /\ packet.id = SERVER_HANDSHAKE

\* A handshake handler that records the protocol version before it has
\* checked the declared next state.
HandshakeRecordsVersionFirst(c) ==
    /\ pc[c] = "loop"
    /\ HasFrame(buf[c])
    /\ LET r == RawOf(buf[c])
           packet == PacketOf(r)
           handshake == HandshakeDecode(packet.data)
           new_state == from_id(Unwrap(handshake).next_state)
       IN  /\ IsHandshake(client_state[c], packet)
           /\ TakeFrame(c)
           /\ IF ~IsSome(handshake)
              THEN /\ Close(c, "malformed_handshake")
                   /\ UNCHANGED <<client_info, client_state, inbound_history>>
              ELSE /\ client_info' =
                        [client_info EXCEPT
                            ![c].protocol_version = Some(Unwrap(handshake).protocol_version)]
                   /\ IF ~IsSome(new_state)
                      THEN /\ Close(c, "unknown_state")
                           /\ UNCHANGED <<client_state, inbound_history>>
                      ELSE /\ client_state' = [client_state EXCEPT ![c] = Unwrap(new_state)]
                           /\ inbound_history' =
                                [inbound_history EXCEPT
                                    ![c] = HistoryAfterHandshake(@, r, Unwrap(new_state))]
                           /\ Continue(c, "handshake")
    /\ UNCHANGED <<shared, stream, nread, login_queue, raw, written>>

\* A handshake that records the protocol version and leaves the client state
\* where it was.
HandshakeWithoutSetState(c) ==
    /\ pc[c] = "loop"
    /\ HasFrame(buf[c])
    /\ LET r == RawOf(buf[c])
           packet == PacketOf(r)
           handshake == HandshakeDecode(packet.data)
           new_state == from_id(Unwrap(handshake).next_state)
       IN  /\ IsHandshake(client_state[c], packet)
           /\ TakeFrame(c)
           /\ IF ~IsSome(handshake)
              THEN /\ Close(c, "malformed_handshake")
                   /\ UNCHANGED <<client_info, client_state, inbound_history>>
              ELSE IF ~IsSome(new_state)
              THEN /\ Close(c, "unknown_state")
                   /\ UNCHANGED <<client_info, client_state, inbound_history>>
              ELSE /\ client_info' =
                        [client_info EXCEPT
                            ![c].protocol_version = Some(Unwrap(handshake).protocol_version)]
                   /\ client_state' = client_state
                   /\ inbound_history' =
                        [inbound_history EXCEPT
                            ![c] = HistoryAfterHandshake(@, r, Unwrap(new_state))]
                   /\ Continue(c, "handshake")
    /\ UNCHANGED <<shared, stream, nread, login_queue, raw, written>>

\* A handshake that goes on to the status-request test with the state it has
\* just set, instead of continuing with the next frame.
HandshakeFallsThrough(c) ==
    /\ pc[c] = "loop"
    /\ HasFrame(buf[c])
    /\ LET r == RawOf(buf[c])
           packet == PacketOf(r)
           handshake == HandshakeDecode(packet.data)
           new_state == from_id(Unwrap(handshake).next_state)
       IN  /\ IsHandshake(client_state[c], packet)
           /\ TakeFrame(c)
           /\ IF ~IsSome(handshake)
              THEN /\ Close(c, "malformed_handshake")
                   /\ UNCHANGED <<client_info, client_state, inbound_history, written>>
              ELSE IF ~IsSome(new_state)
              THEN /\ Close(c, "unknown_state")
                   /\ UNCHANGED <<client_info, client_state, inbound_history, written>>
              ELSE /\ client_info' =
                        [client_info EXCEPT
                            ![c].protocol_version = Some(Unwrap(handshake).protocol_version)]
                   /\ client_state' = [client_state EXCEPT ![c] = Unwrap(new_state)]
                   /\ inbound_history' =
                        [inbound_history EXCEPT
                            ![c] = HistoryAfterHandshake(@, r, Unwrap(new_state))]
                   /\ IF Unwrap(new_state) = "Status" /\ packet.id = SERVER_STATUS
                      THEN written' = [written EXCEPT
                                          ![c] = Append(@, StatusResponse(server_status))]
                      ELSE written' = written
                   /\ Continue(c, "handshake")
    /\ UNCHANGED <<shared, stream, nread, login_queue, raw>>

\* Hijack handshake.
Handshake(c) ==
    /\ pc[c] = "loop"
    /\ HasFrame(buf[c])
    /\ LET r == RawOf(buf[c])
           packet == PacketOf(r)
           handshake == HandshakeDecode(packet.data)
           new_state == from_id(Unwrap(handshake).next_state)
       IN  /\ IsHandshake(client_state[c], packet)
           /\ TakeFrame(c)
           /\ IF ~IsSome(handshake)
              THEN /\ Close(c, "malformed_handshake")
                   /\ UNCHANGED <<client_info, client_state, inbound_history>>
              ELSE IF ~IsSome(new_state)
              THEN /\ Close(c, "unknown_state")
                   /\ UNCHANGED <<client_info, client_state, inbound_history>>
              ELSE /\ client_info' =
                        [client_info EXCEPT
                            ![c].protocol_version = Some(Unwrap(handshake).protocol_version)]
                   /\ client_state' = [client_state EXCEPT ![c] = Unwrap(new_state)]
                   /\ inbound_history' =
                        [inbound_history EXCEPT
                            ![c] = HistoryAfterHandshake(@, r, Unwrap(new_state))]
                   /\ Continue(c, "handshake")
    /\ UNCHANGED <<shared, stream, nread, login_queue, raw, written>>

\* write_all to the client: the bytes are written, or the write fails and
\* serve returns Err.
WriteOrFail(c, reply, ok, kind) ==
    IF ok
    THEN /\ written' = [written EXCEPT ![c] = Append(@, reply)]
         /\ event' = [event EXCEPT ![c] = kind]
    ELSE /\ written' = written
         /\ event' = [event EXCEPT ![c] = "write_error"]

\* The frame is dispatched as a status request.
IsStatusRequest(state, packet) == state = "Status" /\ packet.id = SERVER_STATUS

\* Hijack server status packet.
StatusRequest(c) ==
    /\ pc[c] = "loop"
    /\ HasFrame(buf[c])
    /\ LET packet == PacketOf(RawOf(buf[c]))
       IN  /\ ~IsHandshake(client_state[c], packet)
           /\ IsStatusRequest(client_state[c], packet)
    /\ TakeFrame(c)
    /\ \E ok \in BOOLEAN :
          /\ WriteOrFail(c, StatusResponse(server_status), ok, "status")
          /\ pc' = [pc EXCEPT ![c] = IF ok THEN "loop" ELSE "closed"]
    /\ UNCHANGED <<shared, stream, nread, inbound_history, login_queue,
                   client_state, client_info, raw>>

\* The frame is dispatched as a ping.
IsPing(state, packet) == state = "Status" /\ packet.id = SERVER_PING

\* A ping handler that also records the ping in inbound_history.
PingRecorded(c) ==
    /\ pc[c] = "loop"
    /\ HasFrame(buf[c])
    /\ LET r == RawOf(buf[c])
           packet == PacketOf(r)
       IN  /\ ~IsHandshake(client_state[c], packet)
           /\ ~IsStatusRequest(client_state[c], packet)
           /\ IsPing(client_state[c], packet)
           /\ inbound_history' = [inbound_history EXCEPT ![c] = @ \o r]
           /\ \E ok \in BOOLEAN :
                 /\ WriteOrFail(c, Echo(r), ok, "ping")
                 /\ pc' = [pc EXCEPT ![c] = IF ok THEN "loop" ELSE "closed"]
    /\ TakeFrame(c)
    /\ UNCHANGED <<shared, stream, nread, login_queue, client_state, client_info, raw>>

\* Hijack ping packet.
Ping(c) ==
    /\ pc[c] = "loop"
    /\ HasFrame(buf[c])
    /\ LET r == RawOf(buf[c])
           packet == PacketOf(r)
       IN  /\ ~IsHandshake(client_state[c], packet)
           /\ ~IsStatusRequest(client_state[c], packet)
           /\ IsPing(client_state[c], packet)
           /\ \E ok \in BOOLEAN :
                 /\ WriteOrFail(c, Echo(r), ok, "ping")
                 /\ pc' = [pc EXCEPT ![c] = IF ok THEN "loop" ELSE "closed"]
    /\ TakeFrame(c)
    /\ UNCHANGED <<shared, stream, nread, inbound_history, login_queue,
                   client_state, client_info, raw>>

\* A login-start test that looks at the packet id alone.
IsLoginStartInAnyState(state, packet) == packet.id = SERVER_LOGIN_START

\* The frame is dispatched as a login start.
IsLoginStart(state, packet) == state = "Login" /\ packet.id = SERVER_LOGIN_START

\* config.lockout.enabled: every login is kicked.
LockoutEnabled == config.lockout_enabled

\* A ban check with is_banned() negated.
IsBannedNegated(ip) == IsSome(banned_ips[ip]) /\ ~Unwrap(banned_ips[ip]).banned

\* A ban check that takes any entry for a ban, without asking is_banned().
IsBannedByAnyEntry(ip) == IsSome(banned_ips[ip])

\* server.ban_entry(ip) holds an entry and ban.is_banned().
IsBanned(ip) == IsSome(banned_ips[ip]) /\ Unwrap(banned_ips[ip]).banned

\* An Access Gate that checks the ban before the lockout.
GateBanFirst(c) ==
    IF IsBanned(PeerIp(c))
    THEN Some([reason |-> Unwrap(banned_ips[PeerIp(c)]).reason, kind |-> "kicked_ban"])
    ELSE IF LockoutEnabled
    THEN Some([reason |-> LockoutMessage, kind |-> "kicked_lockout"])
    ELSE None

\* The Access Gate: the kick a login from connection c is answered with, if
\* any.  Lockout is checked first, then the ban of the peer's address.
Gate(c) ==
    IF LockoutEnabled
    THEN Some([reason |-> LockoutMessage, kind |-> "kicked_lockout"])
    ELSE IF IsBanned(PeerIp(c))
    THEN Some([reason |-> Unwrap(banned_ips[PeerIp(c)]).reason, kind |-> "kicked_ban"])
    ELSE None

\* action::kick, after which serve leaves its loop (or returns Err).
KickAndClose(c, msg, kind) ==
    \E ok \in BOOLEAN :
        /\ WriteOrFail(c, Kick(msg), ok, kind)
        /\ pc' = [pc EXCEPT ![c] = "closed"]

\* A login start that gives up on a payload it cannot decode.
LoginStartAbortsOnBadName(c) ==
    /\ pc[c] = "loop"
    /\ HasFrame(buf[c])
    /\ LET r == RawOf(buf[c])
           packet == PacketOf(r)
           login == LoginStartDecode(packet.data)
           username == IF IsSome(login) THEN Some(Unwrap(login).name) ELSE None
       IN  /\ ~IsHandshake(client_state[c], packet)
           /\ ~IsStatusRequest(client_state[c], packet)
           /\ ~IsPing(client_state[c], packet)
           /\ IsLoginStart(client_state[c], packet)
           /\ client_info' = [client_info EXCEPT ![c].username = username]
           /\ IF ~IsSome(login)
              THEN /\ Close(c, "malformed_login")
                   /\ UNCHANGED <<shared, raw, written>>
              ELSE IF IsSome(Gate(c))
              THEN /\ KickAndClose(c, Unwrap(Gate(c)).reason, Unwrap(Gate(c)).kind)
                   /\ UNCHANGED <<shared, raw>>
              ELSE /\ start_requests' = start_requests + 1
                   /\ server_state' = StateAfterStart(server_state)
                   /\ raw' = [raw EXCEPT ![c] = r]
                   /\ pc' = [pc EXCEPT ![c] = "starting"]
                   /\ event' = [event EXCEPT ![c] = "start_requested"]
                   /\ UNCHANGED <<config, status, banned_ips, written>>
    /\ TakeFrame(c)
    /\ UNCHANGED <<stream, nread, inbound_history, login_queue, client_state>>

\* Hijack login start, up to the start of the server.
LoginStart(c) ==
    /\ pc[c] = "loop"
    /\ HasFrame(buf[c])
    /\ LET r == RawOf(buf[c])
           packet == PacketOf(r)
           login == LoginStartDecode(packet.data)
           username == IF IsSome(login) THEN Some(Unwrap(login).name) ELSE None
       IN  /\ ~IsHandshake(client_state[c], packet)
           /\ ~IsStatusRequest(client_state[c], packet)
           /\ ~IsPing(client_state[c], packet)
           /\ IsLoginStart(client_state[c], packet)
           /\ client_info' = [client_info EXCEPT ![c].username = username]
           /\ IF IsSome(Gate(c))
              THEN /\ KickAndClose(c, Unwrap(Gate(c)).reason, Unwrap(Gate(c)).kind)
                   /\ UNCHANGED <<shared, raw>>
              ELSE /\ start_requests' = start_requests + 1
                   /\ server_state' = StateAfterStart(server_state)
                   /\ raw' = [raw EXCEPT ![c] = r]
                   /\ pc' = [pc EXCEPT ![c] = "starting"]
                   /\ event' = [event EXCEPT ![c] = "start_requested"]
                   /\ UNCHANGED <<config, status, banned_ips, written>>
    /\ TakeFrame(c)
    /\ UNCHANGED <<stream, nread, inbound_history, login_queue, client_state>>

\* A login_queue that holds the login start alone.
LoginQueueWithoutBuffer(r, b) == r

\* A login_queue with the buffered bytes ahead of the login start.
LoginQueueBufferFirst(r, b) == b \o r

\* An inbound history that leaves out the bytes still in the buffer.
HistoryAfterLoginWithoutBuffer(h, r, b) == h \o r

\* inbound_history after the login start r with b left in the buffer.
HistoryAfterLogin(h, r, b) == h \o r \o b

\* login_queue: everything from the login start r on, b being left in the buffer.
LoginQueue(r, b) == r \o b

\* Hijack login start, from the start of the server on: the recorded bytes and
\* the connection go to join::occupy.
Occupy(c) ==
    /\ pc[c] = "starting"
    /\ inbound_history' = [inbound_history EXCEPT ![c] = HistoryAfterLogin(@, raw[c], buf[c])]
    /\ login_queue' = [login_queue EXCEPT ![c] = LoginQueue(raw[c], buf[c])]
    /\ buf' = [buf EXCEPT ![c] = <<>>]
    /\ pc' = [pc EXCEPT ![c] = "occupied"]
    /\ event' = [event EXCEPT ![c] = "occupied"]
    /\ UNCHANGED <<shared, stream, nread, client_state, client_info, raw, written>>

\* Show unhandled packet warning.
Unhandled(c) ==
    /\ pc[c] = "loop"
    /\ HasFrame(buf[c])
    /\ LET packet == PacketOf(RawOf(buf[c]))
       IN  /\ ~IsHandshake(client_state[c], packet)
           /\ ~IsStatusRequest(client_state[c], packet)
           /\ ~IsPing(client_state[c], packet)
           /\ ~IsLoginStart(client_state[c], packet)
    /\ TakeFrame(c)
    /\ Continue(c, "unhandled")
    /\ UNCHANGED <<shared, stream, nread, inbound_history, login_queue,
                   client_state, client_info, raw, written>>

\* One step of the serve task of connection c.
Step(c) ==
    \/ ReadSocket(c)
    \/ ReadEnd(c)
    \/ ReadError(c)
    \/ MalformedFrame(c)
    \/ Handshake(c)
    \/ StatusRequest(c)
    \/ Ping(c)
    \/ LoginStart(c)
    \/ Occupy(c)
    \/ Unhandled(c)

Next == \E c \in Conns : Step(c)

\* ---------------------------------------------------------- specifications

Bans == {None, Some(ActiveBan), Some(ExpiredBan)}

\* One client connects and sends any stream of at most MaxFrames frames.
Init ==
    InitWith({1}, StreamsUpTo(MaxFrames), BOOLEAN, {TRUE}, {"Stopped", "Started"},
             {None}, Bans)

Spec == Init /\ [][Next]_vars

\* The serve task is scheduled: once a login start is in the buffer the task
\* handles it, and once Server::start has returned the task goes on to the
\* handoff.  Neither step waits for the client.
FairSpec == Spec /\ \A c \in Conns : WF_vars(LoginStart(c)) /\ WF_vars(Occupy(c))

\* Streams of the clients that are served concurrently: a login behind an
\* unintercepted frame, a status exchange, a handshake to an unknown state, and
\* a malformed frame behind a handshake to Transfer.
ConcStreams ==
    {Flatten(<<HsLogin, PingFrame, LoginFrame>>),
     Flatten(<<HsStatus, Id0Empty, PingFrame>>),
     HsUnknown,
     Flatten(<<HsTransfer, BadLength>>)}

\* Two clients are served at once, their tasks interleaved.
InitConc ==
    InitWith(Conns, ConcStreams, BOOLEAN, {TRUE}, {"Stopped"}, {None},
             {None, Some(ActiveBan)})

SpecConc == InitConc /\ [][Next]_vars

\* One client connects while the backend is in any state, with or without a
\* status snapshot, and with the backend's own description passed through or not.
InitStatus ==
    InitWith({1}, ConcStreams, {FALSE}, BOOLEAN, ServerStates,
             {None, Some(Snapshot)}, {None})

SpecStatus == InitStatus /\ [][Next]_vars

\* ------------------------------------------------------------- properties

\* Connection c handles the frame at the head of its buffer in this step.
Dispatches(c) == pc[c] = "loop" /\ HasFrame(buf[c]) /\ buf'[c] = RestOf(buf[c])

\* The frame at the head of c's buffer is a login start received in phase Login.
AtLoginStart(c) ==
    /\ pc[c] = "loop"
    /\ HasFrame(buf[c])
    /\ client_state[c] = "Login"
    /\ PacketOf(RawOf(buf[c])).id = SERVER_LOGIN_START

\* The peer of c has an active ban entry.
ActivelyBanned(c) == banned_ips[PeerIp(c)] = Some(ActiveBan)

\* C1 (ledger completeness): when a login start received in phase Login passes
\* the gate, the frame's raw bytes and the bytes left in the buffer are together
\* exactly the buffer as it was; and the login_queue handed to the relay is
\* those raw bytes followed by those buffered bytes, the buffer being empty
\* afterwards.
C1_LedgerCompleteness ==
    [][\A c \in Conns :
          /\ (AtLoginStart(c) /\ pc'[c] = "starting") =>
                /\ raw'[c] = RawOf(buf[c])
                /\ raw'[c] \o buf'[c] = buf[c]
                /\ login_queue'[c] = <<>>
          /\ (pc[c] # "occupied" /\ pc'[c] = "occupied") =>
                /\ pc[c] = "starting"
                /\ login_queue'[c] = raw[c] \o buf[c]
                /\ buf'[c] = <<>>]_vars

\* A login was handed off with bytes buffered beyond the login start.
C1_Witness ==
    \E c \in Conns :
        /\ pc[c] = "occupied"
        /\ Len(login_queue[c]) > Len(raw[c])
        /\ buf[c] = <<>>

\* Where the login-start frame begins in client stream s (an offset, counted
\* from 0), walking whole frames from offset off in phase ph; -1 when the walk
\* ends before a login start.  It depends on the stream alone, not on how the
\* stream is split into reads.
RECURSIVE LoginStartAt(_, _, _)
LoginStartAt(s, off, ph) ==
    LET b == SubSeq(s, off + 1, Len(s))
        packet == PacketOf(RawOf(b))
        next == off + Len(RawOf(b))
        handshake == HandshakeDecode(packet.data)
        new_state == from_id(Unwrap(handshake).next_state)
    IN  IF ~HasFrame(b) THEN -1
        ELSE IF ph = "Handshake" /\ packet.id = SERVER_HANDSHAKE
        THEN IF IsSome(handshake) /\ IsSome(new_state)
             THEN LoginStartAt(s, next, Unwrap(new_state))
             ELSE -1
        ELSE IF ph = "Login" /\ packet.id = SERVER_LOGIN_START THEN off
        ELSE LoginStartAt(s, next, ph)

\* C2 (byte exactness at handoff): at handoff, login_queue followed by the bytes
\* of the client stream not yet read is the suffix of the client stream that
\* starts at the first byte of the login-start frame, however the stream was
\* split into reads.
C2_HandoffByteExact ==
    \A c \in Conns :
        pc[c] = "occupied" =>
            /\ LoginStartAt(stream[c], 0, "Handshake") >= 0
            /\ login_queue[c] \o Unread(c) =
                  SubSeq(stream[c], LoginStartAt(stream[c], 0, "Handshake") + 1,
                         Len(stream[c]))

\* A handoff with part of a later frame in login_queue and the rest unread.
C2_Witness ==
    \E c \in Conns :
        /\ pc[c] = "occupied"
        /\ Len(login_queue[c]) > Len(raw[c])
        /\ ~HasFrame(SubSeq(login_queue[c], Len(raw[c]) + 1, Len(login_queue[c])))
        /\ Unread(c) # <<>>

\* Where the handshake frame that moves the connection to phase Login begins
\* in client stream s (an offset, counted from 0), walking whole frames from
\* offset off in phase Handshake; -1 when there is none.
RECURSIVE LoginHandshakeAt(_, _)
LoginHandshakeAt(s, off) ==
    LET b == SubSeq(s, off + 1, Len(s))
        packet == PacketOf(RawOf(b))
        handshake == HandshakeDecode(packet.data)
    IN  IF ~HasFrame(b) THEN -1
        ELSE IF packet.id # SERVER_HANDSHAKE THEN LoginHandshakeAt(s, off + Len(RawOf(b)))
        ELSE IF IsSome(handshake) /\ from_id(Unwrap(handshake).next_state) = Some("Login")
        THEN off
        ELSE -1

\* C3 (the full ledger never drops bytes): at handoff inbound_history is, in
\* wire order, every byte read from the client from the first byte of the
\* handshake frame that moved the connection to phase Login on: that handshake,
\* every frame after it up to and including the login start, and the bytes
\* buffered beyond the login start.
C3_FullLedgerComplete ==
    \A c \in Conns :
        pc[c] = "occupied" =>
            /\ LoginHandshakeAt(stream[c], 0) >= 0
            /\ inbound_history[c] =
                  SubSeq(stream[c], LoginHandshakeAt(stream[c], 0) + 1, nread[c])

\* Nothing of connection c changes in this step.
Frozen(c) ==
    /\ nread'[c] = nread[c]
    /\ buf'[c] = buf[c]
    /\ inbound_history'[c] = inbound_history[c]
    /\ login_queue'[c] = login_queue[c]
    /\ client_state'[c] = client_state[c]
    /\ client_info'[c] = client_info[c]
    /\ raw'[c] = raw[c]
    /\ written'[c] = written[c]
    /\ pc'[c] = pc[c]
    /\ event'[c] = event[c]

\* The frame at the head of c's buffer is one serve takes for a handshake.
AtHandshake(c) ==
    /\ pc[c] = "loop"
    /\ HasFrame(buf[c])
    /\ client_state[c] = "Handshake"
    /\ PacketOf(RawOf(buf[c])).id = SERVER_HANDSHAKE

\* C4 (phase monotonicity): the phase starts at Handshake; it changes only in a
\* step that handles a handshake frame which decodes, in phase Handshake, and
\* then to Status, Login or Transfer; so once it has left Handshake it never
\* changes again.
C4_PhaseMonotonic ==
    /\ \A c \in Conns : client_state[c] = "Handshake"
    /\ [][\A c \in Conns :
             client_state'[c] # client_state[c] =>
                /\ AtHandshake(c)
                /\ Dispatches(c)
                /\ IsSome(HandshakeDecode(PacketOf(RawOf(buf[c])).data))
                /\ client_state'[c] \in {"Status", "Login", "Transfer"}]_vars

\* A connection that left Handshake was sent a further frame with the
\* handshake's packet id and stayed in its phase.
C4_Witness ==
    \E c \in Conns :
        /\ client_state[c] = "Transfer"
        /\ event[c] = "unhandled"
        /\ Len(stream[c]) >= 8
        /\ SubSeq(stream[c], 1, 8) = HsTransfer \o HsLogin
        /\ nread[c] - Len(buf[c]) = 8

\* The frame at the head of c's buffer is a status request or a ping received
\* in phase Status.
AtStatusOrPing(c) ==
    /\ pc[c] = "loop"
    /\ HasFrame(buf[c])
    /\ client_state[c] = "Status"
    /\ PacketOf(RawOf(buf[c])).id \in {SERVER_STATUS, SERVER_PING}

\* C5 (status/ping purity): a step that handles a status request or a ping in
\* phase Status leaves both ledgers, the phase and the client info of every
\* connection unchanged and requests no backend start; it writes at most one
\* reply to the client.
C5_StatusPingPurity ==
    [][\A c \in Conns :
          (AtStatusOrPing(c) /\ Dispatches(c)) =>
             /\ inbound_history' = inbound_history
             /\ login_queue' = login_queue
             /\ client_state' = client_state
             /\ client_info' = client_info
             /\ raw' = raw
             /\ start_requests' = start_requests
             /\ server_state' = server_state
             /\ \/ written' = written
                \/ /\ Len(written'[c]) = Len(written[c]) + 1
                   /\ SubSeq(written'[c], 1, Len(written[c])) = written[c]]_vars

\* A status request and a ping were both answered.
C5_Witness ==
    \E c \in Conns :
        /\ event[c] = "ping"
        /\ Len(written[c]) = 2
        /\ written[c][1].kind = "status_response"
        /\ inbound_history[c] = <<>>
        /\ start_requests = 0

\* C6 (the backend stays asleep until a real login): with the connection tasks
\* interleaved, a step of one connection changes nothing of another; the
\* backend state and the count of start requests change only in a step that
\* handles a login start in phase Login with lockout off and no active ban for
\* the peer, which requests one start; configuration, snapshot and ban store
\* never change.
C6_BackendAsleepUntilLogin ==
    [][/\ \A c \in Conns : ~Frozen(c) => \A d \in Conns \ {c} : Frozen(d)
       /\ (start_requests' # start_requests \/ server_state' # server_state) =>
             \E c \in Conns :
                /\ AtLoginStart(c)
                /\ Dispatches(c)
                /\ ~config.lockout_enabled
                /\ ~ActivelyBanned(c)
                /\ start_requests' = start_requests + 1
       /\ UNCHANGED <<config, status, banned_ips>>]_vars

\* One connection was handed off, which started the backend, and another was
\* kicked for its ban.
C6_Witness ==
    \E c, d \in Conns :
        /\ c # d
        /\ pc[c] = "occupied"
        /\ event[d] = "kicked_ban"
        /\ start_requests = 1
        /\ server_state = "Starting"

\* C7 (lockout precedence): with lockout enabled, a step that handles a login
\* start in phase Login, whatever the username and whether or not the peer is
\* banned, ends the pipeline with no backend start and nothing handed off; what
\* it writes is the kick with the lockout message, unless the write fails.  A
\* closed connection stays as it is.
C7_LockoutPrecedence ==
    [][\A c \in Conns :
          /\ (AtLoginStart(c) /\ Dispatches(c) /\ config.lockout_enabled) =>
                /\ pc'[c] = "closed"
                /\ start_requests' = start_requests
                /\ server_state' = server_state
                /\ login_queue' = login_queue
                /\ inbound_history' = inbound_history
                /\ \/ /\ event'[c] = "kicked_lockout"
                      /\ written'[c] = Append(written[c], Kick(LockoutMessage))
                   \/ /\ event'[c] = "write_error"
                      /\ written'[c] = written[c]
          /\ pc[c] = "closed" => Frozen(c)]_vars

\* A banned peer whose login start did not decode was kicked with the lockout
\* message.
C7_Witness ==
    \E c \in Conns :
        /\ config.lockout_enabled
        /\ ActivelyBanned(c)
        /\ event[c] = "kicked_lockout"
        /\ client_info[c].username = None
        /\ written[c] = <<Kick(LockoutMessage)>>
        /\ pc[c] = "closed"

\* C8 (ban precedence without lockout): with lockout disabled and an active
\* ban entry for the peer, a step that handles a login start in phase Login
\* ends the pipeline with no backend start and nothing handed off; what it
\* writes is the kick with the entry's reason, unless the write fails.  A
\* closed connection stays as it is.
C8_BanPrecedence ==
    [][\A c \in Conns :
          /\ (AtLoginStart(c) /\ Dispatches(c) /\ ~config.lockout_enabled
                /\ IsSome(banned_ips[PeerIp(c)]) /\ Unwrap(banned_ips[PeerIp(c)]).banned) =>
                /\ pc'[c] = "closed"
                /\ start_requests' = start_requests
                /\ server_state' = server_state
                /\ login_queue' = login_queue
                /\ inbound_history' = inbound_history
                /\ \/ /\ event'[c] = "kicked_ban"
                      /\ written'[c] =
                            Append(written[c], Kick(Unwrap(banned_ips[PeerIp(c)]).reason))
                   \/ /\ event'[c] = "write_error"
                      /\ written'[c] = written[c]
          /\ pc[c] = "closed" => Frozen(c)]_vars

\* A banned peer that logged in with a name was kicked with the ban's reason.
C8_Witness ==
    \E c \in Conns :
        /\ ~config.lockout_enabled
        /\ event[c] = "kicked_ban"
        /\ IsSome(client_info[c].username)
        /\ written[c] = <<Kick(ActiveBan.reason)>>
        /\ start_requests = 0
        /\ pc[c] = "closed"

\* C9 (gate pass means the login proceeds): with lockout disabled and no active
\* ban for the peer, a step that handles a login start in phase Login writes
\* nothing to the client and requests one backend start; the connection's next
\* step, which is always possible, is the handoff to the relay, with no further
\* write and no further start request; so the login start leads to the handoff.
C9_GatePass ==
    /\ [][\A c \in Conns :
             /\ (AtLoginStart(c) /\ Dispatches(c) /\ ~config.lockout_enabled
                   /\ ~ActivelyBanned(c)) =>
                   /\ written' = written
                   /\ start_requests' = start_requests + 1
                   /\ pc'[c] = "starting"
             /\ (pc[c] = "starting" /\ ~Frozen(c)) =>
                   /\ pc'[c] = "occupied"
                   /\ written' = written
                   /\ start_requests' = start_requests]_vars
    /\ [](\A c \in Conns : pc[c] = "starting" => ENABLED Occupy(c))
    /\ \A c \in Conns :
          (AtLoginStart(c) /\ ~config.lockout_enabled /\ ~ActivelyBanned(c))
             ~> (pc[c] = "occupied" /\ start_requests >= 1)

\* A peer with a ban entry that is not active was handed off, unkicked.
C9_Witness ==
    \E c \in Conns :
        /\ banned_ips[PeerIp(c)] = Some(ExpiredBan)
        /\ pc[c] = "occupied"
        /\ written[c] = <<>>
        /\ start_requests = 1

\* The frame at the head of c's buffer is a handshake that decodes and declares
\* a next state that is no client state.
AtUnknownHandshake(c) ==
    /\ AtHandshake(c)
    /\ IsSome(HandshakeDecode(PacketOf(RawOf(buf[c])).data))
    /\ ~IsSome(from_id(Unwrap(HandshakeDecode(PacketOf(RawOf(buf[c])).data)).next_state))

\* C10 (unknown handshake target state): a step that handles, in phase
\* Handshake, a handshake declaring an unrecognized next state ends the
\* pipeline with nothing written, the phase still Handshake, no protocol
\* version recorded, both ledgers empty, and no backend start.  A closed
\* connection stays as it is, so nothing is handed off.
C10_UnknownTargetState ==
    [][\A c \in Conns :
          /\ (AtUnknownHandshake(c) /\ Dispatches(c)) =>
                /\ pc'[c] = "closed"
                /\ written' = written
                /\ client_state'[c] = "Handshake"
                /\ client_info'[c].protocol_version = None
                /\ inbound_history'[c] = <<>>
                /\ login_queue'[c] = <<>>
                /\ start_requests' = start_requests
                /\ server_state' = server_state
          /\ pc[c] = "closed" => Frozen(c)]_vars

\* A handshake to an unknown state closed the connection with frames of the
\* client still unhandled.
C10_Witness ==
    \E c \in Conns :
        /\ event[c] = "unknown_state"
        /\ pc[c] = "closed"
        /\ written[c] = <<>>
        /\ client_info[c].protocol_version = None
        /\ buf[c] # <<>>

\* The frame at the head of c's buffer is a status request received in phase
\* Status.
AtStatusRequest(c) ==
    /\ pc[c] = "loop"
    /\ HasFrame(buf[c])
    /\ client_state[c] = "Status"
    /\ PacketOf(RawOf(buf[c])).id = SERVER_STATUS

\* The configured template for backend state s.
TemplateFor(s) ==
    CASE s = "Stopped" -> MotdSleeping
      [] s = "Started" -> MotdSleeping
      [] s = "Starting" -> MotdStarting
      [] s = "Stopping" -> MotdStopping

\* The status reply written in this step by connection c, which wrote one.
ReplyWritten(c) == Unwrap(written'[c][Len(written'[c])].data)

\* C11 (synthesized status fallback): a status reply written while the backend
\* has no snapshot carries the configured public version name and protocol
\* number, max players 0, online 0, an empty sample, and the template of the
\* backend state: sleeping for Stopped and Started, starting for Starting,
\* stopping for Stopping.
C11_StatusFallback ==
    [][\A c \in Conns :
          (AtStatusRequest(c) /\ Dispatches(c) /\ event'[c] = "status"
              /\ ~IsSome(status)) =>
             /\ Len(written'[c]) = Len(written[c]) + 1
             /\ written'[c][Len(written'[c])].kind = "status_response"
             /\ ReplyWritten(c) =
                   [version |-> PublicVersion,
                    description |-> TemplateFor(server_state),
                    players |-> [online |-> 0, max |-> 0, sample |-> <<>>]]]_vars

\* Without a snapshot a status request was answered while the backend was
\* stopping, with the stopping template.
C11_Witness ==
    \E c \in Conns :
        /\ ~IsSome(status)
        /\ server_state = "Stopping"
        /\ event[c] = "status"
        /\ Unwrap(written[c][1].data).description = MotdStopping
        /\ Unwrap(written[c][1].data).version.name = "public version"

\* C12 (snapshot passthrough): a status reply written while the backend has a
\* snapshot takes version and max players from the snapshot and reports online
\* 0 and an empty sample; its description is the snapshot's when from_server is
\* on, whatever the backend state, and the template of the backend state when
\* from_server is off.
C12_SnapshotPassthrough ==
    [][\A c \in Conns :
          (AtStatusRequest(c) /\ Dispatches(c) /\ event'[c] = "status"
              /\ IsSome(status)) =>
             /\ Len(written'[c]) = Len(written[c]) + 1
             /\ written'[c][Len(written'[c])].kind = "status_response"
             /\ ReplyWritten(c).version = Unwrap(status).version
             /\ ReplyWritten(c).players =
                   [online |-> 0, max |-> Unwrap(status).players.max, sample |-> <<>>]
             /\ ReplyWritten(c).description =
                   IF config.motd_from_server
                   THEN Unwrap(status).description
                   ELSE TemplateFor(server_state)]_vars

\* With a snapshot and from_server on, a status request was answered with the
\* backend's own description while the backend was starting.
C12_Witness ==
    \E c \in Conns :
        /\ IsSome(status)
        /\ config.motd_from_server
        /\ server_state = "Starting"
        /\ event[c] = "status"
        /\ Unwrap(written[c][1].data).description = Snapshot.description
        /\ Unwrap(written[c][1].data).players.max = 20
        /\ Unwrap(written[c][1].data).players.online = 0

\* The frames of byte stream s when all of it is in the buffer at once: the raw
\* bytes of each whole frame, in order, up to the first frame that is malformed
\* or incomplete.
RECURSIVE FramesOf(_)
FramesOf(s) == IF ~HasFrame(s) THEN <<>> ELSE <<RawOf(s)>> \o FramesOf(RestOf(s))

\* How many bytes of c's stream have been taken out of the buffer as frames.
Consumed(c) == nread[c] - Len(buf[c])

\* C13 (framing idempotence): however the stream is split into reads, one byte
\* at a time or all at once, the frame the reader yields after k - 1 frames is
\* the k-th frame of the stream read all at once, with the same raw bytes and
\* the same decoded packet; a read appends to the buffer, a yielded frame is
\* taken off its head, and the bytes beyond it stay in the buffer.
C13_FramingIdempotence ==
    /\ [](\A c \in Conns :
             pc[c] = "loop" =>
                buf[c] = SubSeq(stream[c], Consumed(c) + 1, nread[c]))
    /\ [][\A c \in Conns :
             (pc[c] = "loop" /\ ~Frozen(c)) =>
                IF HasFrame(buf[c])
                THEN /\ nread'[c] = nread[c]
                     /\ buf'[c] = RestOf(buf[c])
                     /\ \E k \in 1..Len(FramesOf(stream[c])) :
                           /\ Len(Flatten(SubSeq(FramesOf(stream[c]), 1, k - 1))) = Consumed(c)
                           /\ FramesOf(stream[c])[k] = RawOf(buf[c])
                           /\ PacketOf(FramesOf(stream[c])[k]) = PacketOf(RawOf(buf[c]))
                ELSE /\ nread'[c] >= nread[c]
                     /\ buf'[c] = buf[c] \o SubSeq(stream[c], nread[c] + 1, nread'[c])]_vars

\* A frame was yielded and part of the next frame, read along with it, is still
\* in the buffer, the rest of it not yet read.
C13_Witness ==
    \E c \in Conns :
        /\ pc[c] = "loop"
        /\ event[c] \notin {"none", "read"}
        /\ Consumed(c) > 0
        /\ buf[c] # <<>>
        /\ ~HasFrame(buf[c])
        /\ ~Malformed(buf[c])
        /\ nread[c] < Len(stream[c])

\* C14 (handoff ordering and finality): a login start that passes the gate
\* first requests the backend start, with the ledger not yet touched; the
\* handoff that follows appends the login-start raw bytes and then the buffered
\* remainder to the inbound history, makes the login queue those same bytes,
\* and empties the buffer; the start has been requested once for each
\* connection that got that far; a connection is handed off only from there, at
\* most once, and after the handoff serve neither reads nor writes for it again.
C14_HandoffOrderingFinality ==
    /\ [](\A c \in Conns : pc[c] = "occupied" => buf[c] = <<>>)
    /\ [](start_requests = Cardinality({c \in Conns : pc[c] \in {"starting", "occupied"}}))
    /\ [][\A c \in Conns :
             /\ (pc[c] = "loop" /\ pc'[c] = "starting") =>
                   /\ start_requests' = start_requests + 1
                   /\ inbound_history'[c] = inbound_history[c]
                   /\ login_queue'[c] = login_queue[c]
                   /\ written'[c] = written[c]
                   /\ raw'[c] = RawOf(buf[c])
                   /\ buf'[c] = RestOf(buf[c])
             /\ (pc[c] = "starting" /\ ~Frozen(c)) =>
                   /\ pc'[c] = "occupied"
                   /\ start_requests' = start_requests
                   /\ inbound_history'[c] = inbound_history[c] \o raw[c] \o buf[c]
                   /\ login_queue'[c] = raw[c] \o buf[c]
                   /\ written'[c] = written[c]
             /\ (pc'[c] = "occupied" /\ pc[c] # "occupied") => pc[c] = "starting"
             /\ pc[c] = "occupied" => Frozen(c)]_vars

\* A connection was handed off with bytes beyond the login start in its ledger.
C14_Witness ==
    \E c \in Conns :
        /\ pc[c] = "occupied"
        /\ start_requests = 1
        /\ Len(login_queue[c]) > Len(raw[c])
        /\ nread[c] < Len(stream[c])

\* A login start in phase Login whose payload LoginStart::decode rejects.
AtBadLoginStart(c) ==
    /\ AtLoginStart(c)
    /\ LoginStartDecode(PacketOf(RawOf(buf[c])).data) = None

\* Sequence p is the beginning of sequence s.
IsPrefix(p, s) == Len(p) <= Len(s) /\ SubSeq(s, 1, Len(p)) = p

\* Sequence p is the end of sequence s.
IsSuffix(p, s) == Len(p) <= Len(s) /\ SubSeq(s, Len(s) - Len(p) + 1, Len(s)) = p

\* C15 (login-start decode failure does not abort): a login start whose payload
\* cannot be decoded records an absent username and then goes through the gate
\* like any other: with lockout on or the peer actively banned the connection
\* is kicked and closed without a start, otherwise the backend start is
\* requested and the connection goes on to the handoff, where the frame's raw
\* bytes open the login queue and the login queue ends the inbound history.
C15_BadLoginStartProceeds ==
    /\ [](\A c \in Conns :
             (pc[c] = "starting" /\ client_info[c].username = None) => ENABLED Occupy(c))
    /\ [](\A c \in Conns :
             (pc[c] = "occupied" /\ client_info[c].username = None) =>
                /\ IsPrefix(raw[c], login_queue[c])
                /\ IsSuffix(login_queue[c], inbound_history[c]))
    /\ [][\A c \in Conns :
             (AtBadLoginStart(c) /\ Dispatches(c)) =>
                /\ client_info'[c].username = None
                /\ IF config.lockout_enabled \/ ActivelyBanned(c)
                   THEN /\ pc'[c] = "closed"
                        /\ event'[c] \in {"kicked_lockout", "kicked_ban", "write_error"}
                        /\ start_requests' = start_requests
                   ELSE /\ pc'[c] = "starting"
                        /\ event'[c] = "start_requested"
                        /\ start_requests' = start_requests + 1
                        /\ raw'[c] = RawOf(buf[c])]_vars

\* A connection whose login start could not be decoded was handed off, the
\* undecodable frame first in its login queue.
C15_Witness ==
    \E c \in Conns :
        /\ pc[c] = "occupied"
        /\ client_info[c].username = None
        /\ raw[c] # <<>>
        /\ LoginStartDecode(PacketOf(raw[c]).data) = None
        /\ IsPrefix(raw[c], login_queue[c])
        /\ start_requests = 1

\* The frame at the head of c's buffer is one of the four intercepted
\* (phase, packet id) pairs.
Intercepted(c) ==
    \/ client_state[c] = "Handshake" /\ PacketOf(RawOf(buf[c])).id = SERVER_HANDSHAKE
    \/ client_state[c] = "Status" /\ PacketOf(RawOf(buf[c])).id = SERVER_STATUS
    \/ client_state[c] = "Status" /\ PacketOf(RawOf(buf[c])).id = SERVER_PING
    \/ client_state[c] = "Login" /\ PacketOf(RawOf(buf[c])).id = SERVER_LOGIN_START

\* C16 (unintercepted frames are ignored): a frame that is not a handshake in
\* Handshake, a status request or ping in Status, or a login start in Login,
\* every frame in Transfer among them, leaves the phase, the protocol version,
\* the username and the server state as they were, writes nothing, requests no
\* start, and leaves the connection in the loop to read the next frame.
C16_UninterceptedIgnored ==
    [][\A c \in Conns :
          (Dispatches(c) /\ ~Intercepted(c)) =>
             /\ client_state'[c] = client_state[c]
             /\ client_info'[c] = client_info[c]
             /\ server_state' = server_state
             /\ start_requests' = start_requests
             /\ written'[c] = written[c]
             /\ login_queue'[c] = login_queue[c]
             /\ pc'[c] = "loop"
             /\ event'[c] = "unhandled"]_vars

\* A frame with packet id 0 was ignored in phase Transfer and the connection is
\* still in the loop.
C16_Witness ==
    \E c \in Conns :
        /\ pc[c] = "loop"
        /\ event[c] = "unhandled"
        /\ client_state[c] = "Transfer"
        /\ nread[c] - Len(buf[c]) >= 6
        /\ stream[c][6] = SERVER_LOGIN_START
        /\ written[c] = <<>>
        /\ start_requests = 0

\* What a connection's step reports when it met a fatal error.
FatalEvents == {"malformed_frame", "read_error", "malformed_handshake", "write_error"}

\* C17 (fatal errors end the connection): a malformed frame, a failed read, a
\* handshake payload that does not decode, and a status reply, ping echo or
\* kick that could not be written each close the connection in that very step,
\* with nothing written and no start requested by it; a closed connection
\* reads, writes, starts and hands off nothing from then on.
C17_FatalErrorsClose ==
    [][\A c \in Conns :
          /\ (pc[c] = "loop" /\ Malformed(buf[c]) /\ ~Frozen(c)) =>
                pc'[c] = "closed" /\ event'[c] = "malformed_frame"
          /\ (AtHandshake(c) /\ Dispatches(c)
                /\ HandshakeDecode(PacketOf(RawOf(buf[c])).data) = None) =>
                pc'[c] = "closed" /\ event'[c] = "malformed_handshake"
          /\ (AtStatusOrPing(c) /\ Dispatches(c) /\ written'[c] = written[c]) =>
                pc'[c] = "closed" /\ event'[c] = "write_error"
          /\ (AtLoginStart(c) /\ Dispatches(c) /\ written'[c] = written[c]
                /\ (config.lockout_enabled \/ ActivelyBanned(c))) =>
                pc'[c] = "closed" /\ event'[c] = "write_error"
          /\ (pc[c] = "loop" /\ ~Frozen(c) /\ event'[c] \in FatalEvents) =>
                /\ pc'[c] = "closed"
                /\ written'[c] = written[c]
                /\ start_requests' = start_requests
                /\ nread'[c] = nread[c]
          /\ pc[c] = "closed" => Frozen(c)
          /\ start_requests' # start_requests =>
                \E d \in Conns : pc[d] = "loop" /\ pc'[d] = "starting"]_vars

\* A reply could not be written and the connection is closed with a whole
\* frame still waiting in its buffer.
C17_Witness ==
    \E c \in Conns :
        /\ pc[c] = "closed"
        /\ event[c] = "write_error"
        /\ HasFrame(buf[c])
        /\ start_requests = 0

\* A ping in phase Status is at the head of c's buffer.
AtPing(c) ==
    /\ pc[c] = "loop"
    /\ HasFrame(buf[c])
    /\ client_state[c] = "Status"
    /\ PacketOf(RawOf(buf[c])).id = SERVER_PING

\* C18 (status exchange): in phase Status a status request is answered with
\* exactly one status reply and a ping with exactly one reply made of the ping
\* frame's raw bytes, length prefix included; after the reply the connection is
\* still in the loop in phase Status, so that a ping after a status request is
\* answered too. The one other outcome is a failed write, which closes.
C18_StatusExchange ==
    [][\A c \in Conns :
          /\ (AtStatusRequest(c) /\ Dispatches(c)) =>
                \/ /\ Len(written'[c]) = Len(written[c]) + 1
                   /\ SubSeq(written'[c], 1, Len(written[c])) = written[c]
                   /\ written'[c][Len(written'[c])].kind = "status_response"
                   /\ pc'[c] = "loop"
                   /\ client_state'[c] = "Status"
                \/ /\ written'[c] = written[c]
                   /\ pc'[c] = "closed"
          /\ (AtPing(c) /\ Dispatches(c)) =>
                \/ /\ written'[c] =
                         Append(written[c], [kind |-> "raw", data |-> RawOf(buf[c])])
                   /\ Len(written'[c][Len(written'[c])].data) =
                         1 + RawOf(buf[c])[1]
                   /\ pc'[c] = "loop"
                   /\ client_state'[c] = "Status"
                \/ /\ written'[c] = written[c]
                   /\ pc'[c] = "closed"]_vars

\* A status request and then a ping were both answered, the ping with its own
\* three bytes, and the connection is still open in phase Status.
C18_Witness ==
    \E c \in Conns :
        /\ pc[c] = "loop"
        /\ client_state[c] = "Status"
        /\ Len(written[c]) = 2
        /\ written[c][1].kind = "status_response"
        /\ written[c][2] = [kind |-> "raw", data |-> PingFrame]

\* C19 (identity fields are set once): the protocol version is written only by
\* a handshake that decodes and names a known next state, to the version that
\* handshake carries, and whenever a handshake gets that far the field is still
\* empty; the username is written only by a login start in phase Login, the
\* field being empty until then, and that frame is the last one the connection
\* handles, so neither field is written a second time.
C19_IdentitySetOnce ==
    [][\A c \in Conns :
          /\ client_info'[c].protocol_version # client_info[c].protocol_version =>
                /\ AtHandshake(c) /\ Dispatches(c)
                /\ IsSome(HandshakeDecode(PacketOf(RawOf(buf[c])).data))
                /\ IsSome(from_id(Unwrap(HandshakeDecode(PacketOf(RawOf(buf[c])).data)).next_state))
                /\ client_info'[c].protocol_version =
                      Some(Unwrap(HandshakeDecode(PacketOf(RawOf(buf[c])).data)).protocol_version)
          /\ (AtHandshake(c) /\ Dispatches(c)) =>
                /\ client_info[c].protocol_version = None
                /\ client_info[c].username = None
                /\ event'[c] = "handshake" => client_state'[c] # "Handshake"
          /\ client_info'[c].username # client_info[c].username =>
                AtLoginStart(c) /\ Dispatches(c)
          /\ (AtLoginStart(c) /\ Dispatches(c)) =>
                /\ client_info[c].username = None
                /\ client_info'[c].protocol_version = client_info[c].protocol_version
                /\ pc'[c] # "loop"
          /\ pc[c] # "loop" => client_info'[c] = client_info[c]]_vars

\* Both fields were set, each by its own frame, and the connection's loop is
\* over with bytes of the stream still unread.
C19_Witness ==
    \E c \in Conns :
        /\ pc[c] \in {"occupied", "closed"}
        /\ client_state[c] = "Login"
        /\ IsSome(client_info[c].protocol_version)
        /\ IsSome(client_info[c].username)
        /\ nread[c] < Len(stream[c])

\* C20 (one frame, one action): a frame is dispatched on the client state read
\* before it is handled. The step that changes the client state is a handshake
\* in state Handshake and does nothing else: no reply, no kick, no start, no
\* handoff, one frame consumed, the connection back in the loop; so the
\* handshake that moves to Status or Login is not also answered as a status
\* request or login start, though all three have packet id 0. No frame in
\* state Handshake writes or starts, and no step both writes and starts.
C20_OneFrameOneAction ==
    [][\A c \in Conns :
          /\ client_state'[c] # client_state[c] =>
                /\ AtHandshake(c) /\ Dispatches(c)
                /\ written'[c] = written[c]
                /\ start_requests' = start_requests
                /\ server_state' = server_state
                /\ login_queue'[c] = login_queue[c]
                /\ raw'[c] = raw[c]
                /\ pc'[c] = "loop"
          /\ (Dispatches(c) /\ client_state[c] = "Handshake") =>
                /\ written'[c] = written[c]
                /\ start_requests' = start_requests
                /\ pc'[c] \in {"loop", "closed"}
          /\ (Dispatches(c) /\ written'[c] # written[c]) =>
                /\ client_state[c] \in {"Status", "Login"}
                /\ Len(written'[c]) = Len(written[c]) + 1
                /\ start_requests' = start_requests
          /\ (Dispatches(c) /\ start_requests' # start_requests) =>
                client_state[c] = "Login"]_vars

\* The handshake that moved the connection to Status has just been handled,
\* nothing has been written, and the next frame, again with packet id 0, is
\* waiting in the buffer.
C20_Witness ==
    \E c \in Conns :
        /\ pc[c] = "loop"
        /\ event[c] = "handshake"
        /\ client_state[c] = "Status"
        /\ written[c] = <<>>
        /\ HasFrame(buf[c])
        /\ PacketOf(RawOf(buf[c])).id = SERVER_STATUS
        /\ SERVER_STATUS = SERVER_HANDSHAKE

=============================================================================
